---- MODULE Spec2Model ----
(***************************************************************************)
(* A model of the spreadsheet workflow builder: the WorkflowBuilder        *)
(* orchestrator (step list, one-hop propagation, runAll), the              *)
(* SingleSpreadsheet view (also used as the aggregation view) and the      *)
(* ThreeDSpreadsheet view, with the Find / RunCells / Aggregate            *)
(* collaborators as nondeterministic responders.                           *)
(*                                                                         *)
(* Sequences are 1-based here; the row / col fields of a cell keep the     *)
(* 0-based numbers the program stores in them.                             *)
(***************************************************************************)
EXTENDS Naturals, Sequences, FiniteSets, TLC

\* Bounds of the model (not program constants).
MaxRows == 2
MaxCols == 2
MaxSteps == 4

VARIABLES
    workflowSteps,   \* WorkflowBuilder: the step list, each [type, data]
    views,           \* the mounted view component of each step (its React state)
    isRunningAll,    \* WorkflowBuilder: the busy flag of runAll
    runAll,          \* the position of the runAll loop: [pc, i, phase]
    run,             \* the handler (runFind / runCells / runAggregation) in flight
    calls,           \* collaborator calls issued and not yet forgotten
    log,             \* history: what the last step of the program did
    cache,           \* agent: the files of .cache, by cache key
    now,             \* agent: the clock (new Date(), Date.now())
    requests,        \* agent: the fetches that are out
    issued,          \* agent: how many times it has been called
    reply,           \* agent: what its last step did and answered
    written          \* history: every entry a fetch of agent has stored

\* the state of the server's agent(), which no component of the page touches
cacheVars == <<cache, now, requests, issued, reply, written>>

\* the state of the page
pageVars == <<workflowSteps, views, isRunningAll, runAll, run, calls, log>>

vars == <<workflowSteps, views, isRunningAll, runAll, run, calls, log,
          cache, now, requests, issued, reply, written>>

----------------------------------------------------------------------------
(* Cells, rows, grids *)

Cell(v, r, c) == [value |-> v, row |-> r, col |-> c]

BlankCell == Cell("", 0, 0)

BlankGrid == << <<BlankCell>> >>

\* The values a user types into a cell.
CellValues == {"", "a"}

\* JS: seq.filter((_, i) => i !== index), index 0-based
FilterOut(seq, index) ==
    IF index < Len(seq)
    THEN SubSeq(seq, 1, index) \o SubSeq(seq, index + 2, Len(seq))
    ELSE seq

\* JS template `Column ${n}`
ColumnName(n) == "Column " \o ToString(n)

\* JS template `Sheet ${n}`
SheetLabel(n) == "Sheet " \o ToString(n)

\* JS: row.find(cell => cell.col === 0) is defined
HasFirstColumnCell(row) == \E k \in 1..Len(row) : row[k].col = 0

\* JS: row.find(cell => cell.col === 0)?.value || '' (the first such cell)
FirstColumnValue(row) ==
    IF HasFirstColumnCell(row)
    THEN row[CHOOSE k \in 1..Len(row) :
                 row[k].col = 0 /\ \A j \in 1..(k - 1) : row[j].col # 0].value
    ELSE ""

----------------------------------------------------------------------------
(* SingleSpreadsheet: the synchronous handlers, as functions of the view's *)
(* state.  Each returns the new state and whether onRowsChanged is called. *)

\* useState initialisers of SingleSpreadsheet; columns is the `columns` of
\* sourceSheets[0] for an aggregation view.
SingleInitial(isAggregation, columns) ==
    [ data                 |-> BlankGrid,
      headers              |-> IF isAggregation THEN columns ELSE <<"Input">>,
      isAggregation        |-> isAggregation,
      isRunningFind        |-> FALSE,
      isRunningCells       |-> FALSE,
      isRunningAggregation |-> FALSE,
      isLoading            |-> FALSE ]

SingleAddColumn(data, headers) ==
    [ headers |-> Append(headers, ColumnName(Len(headers) + 1)),
      data    |-> [r \in 1..Len(data) |->
                      Append(data[r], Cell("", data[r][1].row, Len(headers)))],
      changed |-> TRUE ]

\* handleDeleteColumn as it would be without its test of headers.length
SingleDeleteColumnUnguarded(data, headers, colIndex) ==
    [ headers |-> FilterOut(headers, colIndex),
      data    |-> [r \in 1..Len(data) |->
                     LET kept == FilterOut(data[r], colIndex)
                     IN  [k \in 1..Len(kept) |-> [kept[k] EXCEPT !.col = k - 1]]],
      changed |-> TRUE ]

SingleDeleteColumn(data, headers, colIndex) ==
    IF Len(headers) <= 1
    THEN [headers |-> headers, data |-> data, changed |-> FALSE]
    ELSE [ headers |-> FilterOut(headers, colIndex),
           data    |-> [r \in 1..Len(data) |->
                          LET kept == FilterOut(data[r], colIndex)
                          IN  [k \in 1..Len(kept) |-> [kept[k] EXCEPT !.col = k - 1]]],
           changed |-> TRUE ]

\* row is at most data.length (one past the last row extends the grid);
\* writing a cell the row does not hold throws, and nothing is stored.
SingleCellChange(data, headers, row, col, value) ==
    LET extended == IF row + 1 > Len(data)
                    THEN Append(data, [k \in 1..Len(headers) |-> Cell("", row, k - 1)])
                    ELSE data
    IN  IF col + 1 > Len(extended[row + 1])
        THEN [headers |-> headers, data |-> data, changed |-> FALSE]
        ELSE [ headers |-> headers,
               data    |-> [r \in 1..Len(extended) |->
                             [c \in 1..Len(extended[r]) |->
                                 IF r = row + 1 /\ c = col + 1
                                 THEN Cell(value, extended[r][c].row, extended[r][c].col)
                                 ELSE extended[r][c]]],
               changed |-> TRUE ]

SingleAddRow(data, headers) ==
    Append(data, [k \in 1..Len(headers) |-> Cell("", Len(data), k - 1)])

SingleDeleteRow(data, rowIndex) ==
    LET kept == FilterOut(data, rowIndex)
    IN  [r \in 1..Len(kept) |->
            [k \in 1..Len(kept[r]) |-> [kept[r][k] EXCEPT !.row = r - 1]]]

----------------------------------------------------------------------------
(* ThreeDSpreadsheet: initial state and the render effect *)

\* activeSheet === null
NoSheet == 0 - 1

Maximum(a, b) == IF a >= b THEN a ELSE b

Minimum(a, b) == IF a <= b THEN a ELSE b

\* useState initialisers of ThreeDSpreadsheet
ThreeDInitial ==
    [ sheetData      |-> <<>>,
      headers        |-> <<"Find all items">>,
      isRunningFind  |-> FALSE,
      isRunningCells |-> FALSE,
      isExpanded     |-> FALSE,
      activeSheet    |-> NoSheet,
      visibleRange   |-> [start |-> 0, end |-> 2],
      sheetNames     |-> <<>> ]

\* useEffect on [data]: sheetData follows the data prop unless the prop is empty
\* the effect on [activeSheet, isExpanded, sheetNames.length]
ThreeDRangeEffect(view) ==
    IF view.isExpanded /\ view.activeSheet # NoSheet
    THEN [view EXCEPT !.visibleRange =
             [ start |-> Maximum(0, view.activeSheet - 2),
               end   |-> Minimum(Len(view.sheetNames) - 1, view.activeSheet) ]]
    ELSE view

\* the effect on [data], and the effect on the number of names after it
ThreeDDataEffect(view, data) ==
    IF Len(data) = 0
    THEN view
    ELSE ThreeDRangeEffect(
             [view EXCEPT
                 !.sheetData = [k \in 1..Len(data) |-> data[k].data],
                 !.sheetNames = [k \in 1..Len(data) |->
                                   IF FirstColumnValue(data[k].prevRow) # ""
                                   THEN FirstColumnValue(data[k].prevRow)
                                   ELSE "Untitled Sheet"]])

\* handleAddColumn(sheetIndex), sheetIndex 0-based: a header for the whole
\* stack, a cell only in the rows of the sub-sheet it was clicked in
ThreeDAddColumn(view, data, sheetIndex) ==
    LET sheet    == view.sheetData[sheetIndex + 1]
        newSheet == [r \in 1..Len(sheet) |->
                        Append(sheet[r], Cell("", r - 1, Len(sheet[r])))]
    IN  [ headers |-> Append(view.headers, ColumnName(Len(view.headers) + 1)),
          sheetData |-> [view.sheetData EXCEPT ![sheetIndex + 1] = newSheet],
          newData |-> [k \in 1..Len(data) |->
                         [ prevRow |-> data[k].prevRow,
                           data    |-> IF k = sheetIndex + 1 THEN newSheet
                                       ELSE data[k].data ]] ]

\* handleDeleteColumn(sheetIndex, colIndex), both 0-based: nothing happens on
\* a stack of one header; otherwise the header goes for the whole stack and the
\* cell only from the rows of the sub-sheet it was clicked in
ThreeDDeleteColumn(view, data, sheetIndex, colIndex) ==
    IF Len(view.headers) <= 1
    THEN [ headers |-> view.headers, sheetData |-> view.sheetData,
           newData |-> data, changed |-> FALSE ]
    ELSE LET sheet    == view.sheetData[sheetIndex + 1]
             newSheet == [r \in 1..Len(sheet) |->
                            LET kept == FilterOut(sheet[r], colIndex)
                            IN  [k \in 1..Len(kept) |-> [kept[k] EXCEPT !.col = k - 1]]]
         IN  [ headers   |-> FilterOut(view.headers, colIndex),
               sheetData |-> [k \in 1..Len(view.sheetData) |->
                                 IF k = sheetIndex + 1 THEN newSheet
                                 ELSE view.sheetData[k]],
               newData   |-> [k \in 1..Len(data) |->
                                 [ prevRow |-> data[k].prevRow,
                                   data    |-> IF k = sheetIndex + 1 THEN newSheet
                                               ELSE data[k].data ]],
               changed   |-> TRUE ]

----------------------------------------------------------------------------
(* WorkflowBuilder: the step list *)

Step(type, data) == [type |-> type, data |-> data]

\* the sub-sheet's name as the orchestrator computes it for sub-sheet k (1-based)
OriginName(prevRow, k) ==
    IF FirstColumnValue(prevRow) # "" THEN FirstColumnValue(prevRow)
    ELSE SheetLabel(k)

\* JS: lines.join('\n')
RECURSIVE JoinLines(_)
JoinLines(lines) ==
    IF Len(lines) = 0 THEN ""
    ELSE IF Len(lines) = 1 THEN lines[1]
    ELSE lines[1] \o "\n" \o JoinLines(Tail(lines))

\* JS: row[0]?.row || 0
FirstRowField(row) == IF Len(row) > 0 THEN row[1].row ELSE 0

\* the rows an LLM-pipe step reads from the data of the step before it:
\* Array.isArray(newData[0]) tells a grid from the data of a 3D step
LLMSourceData(type, newData) ==
    IF Len(newData) = 0 THEN <<>>
    ELSE IF type = "3d" THEN [k \in 1..Len(newData) |-> newData[k].prevRow]
    ELSE newData

\* handleDataChange, the branch for an LLM-pipe step that follows: its rows
\* derived again from the rows `src`, the outputs of `existing` kept by position
LLMPipeRows(src, existing) ==
    [k \in 1..Len(src) |->
        << Cell(JoinLines([c \in 1..Len(src[k]) |->
                   ColumnName(c) \o ": " \o src[k][c].value]),
                FirstRowField(src[k]), 0),
           Cell(IF k <= Len(existing) /\ Len(existing[k]) >= 2
                THEN existing[k][2].value ELSE "",
                FirstRowField(src[k]), 1) >>]

\* handleDataChange as it would be with the first row taken for a header row
\* (newData.slice(1)) when the sub-sheets are derived
HandleDataChangeSlicing(steps, stepIndex, newData) ==
    LET s1 == [steps EXCEPT ![stepIndex].data = newData]
        hasNext == stepIndex + 1 <= Len(steps)
        s2 == IF hasNext /\ s1[stepIndex].type = "single"
                         /\ s1[stepIndex + 1].type = "3d"
              THEN LET old  == s1[stepIndex + 1].data
                       grid == IF Len(old) > 0 THEN old[1].data ELSE BlankGrid
                       rows == IF Len(newData) > 0 THEN Tail(newData) ELSE <<>>
                   IN  [s1 EXCEPT ![stepIndex + 1].data =
                          [k \in 1..Len(rows) |->
                              [prevRow |-> rows[k], data |-> grid]]]
              ELSE s1
    IN  IF hasNext /\ s2[stepIndex + 1].type = "llm_pipe"
        THEN [s2 EXCEPT ![stepIndex + 1].data =
                 LLMPipeRows(LLMSourceData(s2[stepIndex].type, newData), @)]
        ELSE s2

\* handleDataChange as it would be if it also reset the data of every step
\* beyond the next one
HandleDataChangeInvalidating(steps, stepIndex, newData) ==
    LET s1 == [steps EXCEPT ![stepIndex].data = newData]
        hasNext == stepIndex + 1 <= Len(steps)
        s2 == IF hasNext /\ s1[stepIndex].type = "single"
                         /\ s1[stepIndex + 1].type = "3d"
              THEN LET old  == s1[stepIndex + 1].data
                       grid == IF Len(old) > 0 THEN old[1].data ELSE BlankGrid
                   IN  [s1 EXCEPT ![stepIndex + 1].data =
                          [k \in 1..Len(newData) |->
                              [prevRow |-> newData[k], data |-> grid]]]
              ELSE s1
        s3 == IF hasNext /\ s2[stepIndex + 1].type = "llm_pipe"
              THEN [s2 EXCEPT ![stepIndex + 1].data =
                       LLMPipeRows(LLMSourceData(s2[stepIndex].type, newData), @)]
              ELSE s2
    IN  [j \in 1..Len(s3) |->
            IF j > stepIndex + 1 THEN Step(s3[j].type, <<>>) ELSE s3[j]]

\* handleDataChange(stepIndex, newData), stepIndex 1-based here
HandleDataChange(steps, stepIndex, newData) ==
    LET s1 == [steps EXCEPT ![stepIndex].data = newData]
        hasNext == stepIndex + 1 <= Len(steps)
        s2 == IF hasNext /\ s1[stepIndex].type = "single"
                         /\ s1[stepIndex + 1].type = "3d"
              THEN LET old  == s1[stepIndex + 1].data
                       grid == IF Len(old) > 0 THEN old[1].data ELSE BlankGrid
                   IN  [s1 EXCEPT ![stepIndex + 1].data =
                          [k \in 1..Len(newData) |->
                              [prevRow |-> newData[k], data |-> grid]]]
              ELSE s1
    IN  IF hasNext /\ s2[stepIndex + 1].type = "llm_pipe"
        THEN [s2 EXCEPT ![stepIndex + 1].data =
                 LLMPipeRows(LLMSourceData(s2[stepIndex].type, newData), @)]
        ELSE s2

\* renderStep, case 'llm_pipe': the sourceData prop of the view of step j
LLMViewSource(steps, j) ==
    IF j > 1 THEN LLMSourceData(steps[j - 1].type, steps[j - 1].data) ELSE <<>>

\* LLMPipeSpreadsheet, useEffect on [sourceData, headers]: unless the source
\* is empty, every row is formatted again from the source and the headers, and
\* its output cell is made blank.  (`headers` in the view is the prop as last
\* rendered.)
LLMEffect(view, sourceData, headers) ==
    IF Len(sourceData) = 0
    THEN [view EXCEPT !.headers = headers]
    ELSE [view EXCEPT
            !.headers = headers,
            !.data = [k \in 1..Len(sourceData) |->
                << Cell(JoinLines([c \in 1..Len(headers) |->
                           headers[c] \o ": " \o
                           (IF c <= Len(sourceData[k]) THEN sourceData[k][c].value
                            ELSE "")]),
                        sourceData[k][1].row, 0),
                   Cell("", sourceData[k][1].row, 1) >>]]

\* useState initialisers of LLMPipeSpreadsheet, and the effect of the mount
LLMInitial(sourceData, headers) ==
    LLMEffect([data |-> sourceData, headers |-> headers, isRunning |-> FALSE],
              sourceData, headers)

\* The views after handleDataChange(stepIndex, .) changed the step list from
\* `old` to `new`: a 3D view whose data prop was replaced runs its effect; an
\* LLM-pipe view runs its effect when the data of the step before it was
\* replaced, or when the headers it is given are no longer those of its last
\* render.  The headers are read through the ref of the view before it, that
\* is, as that view last committed them.
ViewsAfter(vs, old, new, stepIndex) ==
    [j \in 1..Len(vs) |->
        IF new[j].type = "3d" /\ new[j].data # old[j].data
        THEN ThreeDDataEffect(vs[j], new[j].data)
        ELSE IF new[j].type = "llm_pipe" /\ j > 1
                /\ (j = stepIndex + 1 \/ views[j - 1].headers # vs[j].headers)
        THEN LLMEffect(vs[j], LLMViewSource(new, j), views[j - 1].headers)
        ELSE vs[j]]

\* handleCreateThreeDSheet(stepIndex): Array.isArray(sourceStep.data[0])
HandleCreateThreeDSheet(steps, stepIndex) ==
    LET src == steps[stepIndex].data
        sourceData == IF Len(src) > 0 THEN src ELSE <<>>
    IN  Append(steps, Step("3d",
            [k \in 1..Len(sourceData) |->
                [prevRow |-> sourceData[k], data |-> BlankGrid]]))

\* handleAggregate(stepIndex)
HandleAggregate(steps, stepIndex) ==
    LET src == steps[stepIndex]
        sourceData == IF src.type = "3d"
                      THEN [k \in 1..Len(src.data) |->
                               << Cell(OriginName(src.data[k].prevRow, k), k - 1, 0) >>]
                      ELSE <<>>
    IN  Append(steps, Step("aggregation", sourceData))

\* handleCreateLLMPipe(stepIndex) on a step whose data is a grid: column 0 is
\* labelled `Column n` from a Single step and by the cell's col otherwise
HandleCreateLLMPipe(steps, stepIndex) ==
    LET src == steps[stepIndex]
        label(c, cell) == IF src.type = "single" THEN ColumnName(c)
                          ELSE ToString(cell.col)
    IN  Append(steps, Step("llm_pipe",
            [k \in 1..Len(src.data) |->
                << Cell(JoinLines([c \in 1..Len(src.data[k]) |->
                           label(c, src.data[k][c]) \o ": " \o src.data[k][c].value]),
                        FirstRowField(src.data[k]), 0),
                   Cell("", FirstRowField(src.data[k]), 1) >>]))

----------------------------------------------------------------------------
(* Collaborators: what a call may come back with.  A failed call is a      *)
(* non-2xx response or a network error.                                    *)

NoResult == [none |-> TRUE]

\* Find: the `results` list of a 2xx response
FindResults == { <<>>, <<"b", "a">>, <<"">> }

FindResponses ==
    {[ok |-> FALSE]} \cup {[ok |-> TRUE, results |-> r] : r \in FindResults}

\* The texts the model may answer to one input of /api/llm.
LLMTexts == {"x", "y"}

\* /api/llm for n inputs: one output per input, in order, or a 500
LLMPipeResponses(n) ==
    {[ok |-> FALSE, success |-> FALSE, outputs |-> <<>>]}
    \cup {[ok |-> TRUE, success |-> TRUE, outputs |-> o] : o \in [1..n -> LLMTexts]}

\* JS object keys: a header named twice is one key, at its first place
RECURSIVE Dedupe(_)
Dedupe(seq) ==
    IF Len(seq) = 0 THEN <<>>
    ELSE LET front == Dedupe(SubSeq(seq, 1, Len(seq) - 1))
             last  == seq[Len(seq)]
         IN  IF \E k \in 1..Len(front) : front[k] = last THEN front
             ELSE Append(front, last)

\* the values RunCells and Aggregate answer with
ResultValues == {"x"}

\* An answer's key/value object, as the sequence of its entries in insertion
\* order: any sub-list of the keys asked for, each with a value.
RECURSIVE ResultMaps(_)
ResultMaps(keys) ==
    IF Len(keys) = 0 THEN { <<>> }
    ELSE LET rest == ResultMaps(Tail(keys))
         IN  rest \cup { <<[key |-> keys[1], value |-> v]>> \o m :
                            v \in ResultValues, m \in rest }

HasKey(map, key) == \E k \in 1..Len(map) : map[k].key = key

\* JS: map[key] || ''
Lookup(map, key) ==
    IF HasKey(map, key)
    THEN map[CHOOSE k \in 1..Len(map) : map[k].key = key].value
    ELSE ""

\* RunCells: non-2xx, or a body {success, results}
RunCellsResponses(keys) ==
    {[ok |-> FALSE], [ok |-> TRUE, success |-> FALSE]}
    \cup {[ok |-> TRUE, success |-> TRUE, results |-> m] : m \in ResultMaps(keys)}

\* What the completion model behind /api/aggregate does: it throws, or its
\* text parses to a key/value object, to null, or does not parse at all.
LLMOutcomes(keys) ==
    {[kind |-> "throws"], [kind |-> "null"], [kind |-> "unparsable"]}
    \cup {[kind |-> "object", object |-> m] : m \in ResultMaps(keys)}

\* the route as it would be if it answered with the sheetName of the request
\* and did not look at the origin row
AggregatePOSTEchoing(prevRow, sheetName, llm) ==
    IF llm.kind = "throws"
    THEN [ok |-> FALSE]
    ELSE [ ok       |-> TRUE,
           success  |-> TRUE,
           sheetName |-> sheetName,
           insightsNull |-> llm.kind = "null",
           aggregatedInsights |-> IF llm.kind = "object" THEN llm.object ELSE <<>> ]

\* POST /api/aggregate for one sub-sheet (sheetName is the `Sheet n` of the
\* request), given what the completion model did
AggregatePOST(prevRow, sheetName, llm) ==
    IF llm.kind = "throws"
    THEN [ok |-> FALSE]
    ELSE [ ok       |-> TRUE,
           success  |-> TRUE,
           sheetName |-> IF Len(prevRow) > 0 /\ prevRow[1].value # ""
                         THEN prevRow[1].value ELSE sheetName,
           insightsNull |-> llm.kind = "null",
           aggregatedInsights |-> IF llm.kind = "object" THEN llm.object ELSE <<>> ]

----------------------------------------------------------------------------
(* Asynchronous handlers.  A handler captures the state of its render,    *)
(* issues its calls and continues when its Promise.all settles: when all  *)
(* its calls have come back, or at the first one that rejects.            *)

NoRun == [kind |-> "none"]

Call(step, kind, sheet, row, keys, origin) ==
    [ step |-> step, kind |-> kind, sheet |-> sheet, row |-> row,
      keys |-> keys, origin |-> origin,
      live |-> TRUE, status |-> "pending", res |-> NoResult ]

Pending(cs) == SelectSeq(cs, LAMBDA c : c.status = "pending")

\* the calls the handler in flight still awaits, and those it owns
LiveCalls(cs) == SelectSeq(cs, LAMBDA c : c.live)

Orphan(cs) == [k \in 1..Len(cs) |-> [cs[k] EXCEPT !.live = FALSE]]

\* the rows as they would be with one cell per result, whatever the headers
SingleFindUpdatesOneColumn(headers, results) ==
    [r \in 1..Len(results) |-> << Cell(results[r], r - 1, 0) >>]

\* handleRunFind of SingleSpreadsheet: rows from the results
SingleFindUpdates(headers, results) ==
    [r \in 1..Len(results) |->
        [k \in 1..Len(headers) |->
            Cell(IF k = 1 THEN results[r] ELSE "", r - 1, k - 1)]]

\* the test as it would be if it asked for the column-0 cell, not for its value
SingleRowHasCell(row) == HasFirstColumnCell(row)

\* handleRunCells of SingleSpreadsheet: does row get a call?
SingleRowHasInput(row) == FirstColumnValue(row) # ""

\* the row as it would be if a failed call kept the row's structure with its
\* outputs emptied (as handlePipeToLLM does) rather than the row itself
SingleRunCellsRowEmptying(row, rowIndex, headers, response) ==
    << Cell(FirstColumnValue(row), rowIndex, 0) >>
    \o [k \in 1..(Len(headers) - 1) |->
           Cell(IF response.ok /\ response.success
                THEN Lookup(response.results, headers[k + 1]) ELSE "",
                rowIndex, k)]

\* handleRunCells of SingleSpreadsheet: the row after its call came back
\* (rowIndex 0-based)
SingleRunCellsRow(row, rowIndex, headers, response) ==
    IF response.ok /\ response.success
    THEN << Cell(FirstColumnValue(row), rowIndex, 0) >>
         \o [k \in 1..(Len(headers) - 1) |->
                Cell(Lookup(response.results, headers[k + 1]), rowIndex, k)]
    ELSE row

\* handleRunAggregation: the row for the result of sub-sheet rowIndex (0-based)
AggregationRow(result, rowIndex, headers) ==
    [k \in 1..Len(headers) |->
        IF k = 1
        THEN Cell(IF result.sheetName # "" THEN result.sheetName
                  ELSE SheetLabel(rowIndex + 1), rowIndex, 0)
        ELSE Cell(Lookup(result.aggregatedInsights, headers[k]), rowIndex, k - 1)]

\* ThreeDSpreadsheet.handleRunFind: the rows of one sub-sheet from its results
ThreeDFindRows(headers, results) ==
    [r \in 1..Len(results) |->
        [k \in 1..Len(headers) |->
            Cell(IF k = 1 THEN results[r] ELSE "", r - 1, k - 1)]]

\* JS: row[0]?.value || firstColumnCell.value
ThreeDRowInput(row, prevRow) ==
    IF Len(row) > 0 /\ row[1].value # "" THEN row[1].value
    ELSE FirstColumnValue(prevRow)

\* ThreeDSpreadsheet.handleRunCells: one row after its call came back
ThreeDRunCellsRow(row, rowIndex, prevRow, response) ==
    IF response.success
    THEN [k \in 1..Len(response.results) |->
             Cell(IF k = 1 THEN ThreeDRowInput(row, prevRow)
                  ELSE response.results[k].value, rowIndex, k - 1)]
    ELSE row

----------------------------------------------------------------------------
(* What a handler leaves behind when it continues after its calls *)

\* onRowsChanged / onDataChange: the orchestrator's handleDataChange, and the
\* render that follows it
Notify(steps, vs, i, newData) ==
    LET ns == HandleDataChange(steps, i, newData)
    IN  [steps |-> ns, views |-> ViewsAfter(vs, steps, ns, i), edit |-> TRUE,
         data |-> newData]

Quiet(steps, vs) == [steps |-> steps, views |-> vs, edit |-> FALSE, data |-> <<>>]

\* the calls of sub-sheet `sheet` (and of row `row`) among cs
CallOf(cs, sheet, row) ==
    cs[CHOOSE k \in 1..Len(cs) : cs[k].sheet = sheet /\ cs[k].row = row]

HasCall(cs, sheet, row) ==
    \E k \in 1..Len(cs) : cs[k].sheet = sheet /\ cs[k].row = row

\* the sub-sheets (1-based indices, in order) for which a 3D handler issues calls
SheetsWithOrigin(data) ==
    SelectSeq([k \in 1..Len(data) |-> k],
              LAMBDA k : HasFirstColumnCell(data[k].prevRow))

\* handleRunFind as it would be without the test of response.ok: the empty
\* `results` of the error body become the rows
SingleFindSettleTrustingBody(r, cs, steps, vs) ==
    LET v     == vs[r.step]
        reset == [v EXCEPT !.isRunningFind = FALSE, !.isLoading = FALSE]
        resp  == cs[1].res
    IN  IF ~resp.ok
        THEN Notify(steps, [vs EXCEPT ![r.step] = [reset EXCEPT !.data = <<>>]],
                    r.step, <<>>)
        ELSE IF Len(resp.results) > 0
        THEN LET updates == SingleFindUpdates(r.headers, resp.results)
             IN  Notify(steps, [vs EXCEPT ![r.step] = [reset EXCEPT !.data = updates]],
                        r.step, updates)
        ELSE Quiet(steps, [vs EXCEPT ![r.step] = reset])

\* handleRunFind as it would be if its early return on an empty result left
\* without passing through `finally`: the flags stay set
SingleFindSettleWithoutFinally(r, cs, steps, vs) ==
    LET v     == vs[r.step]
        reset == [v EXCEPT !.isRunningFind = FALSE, !.isLoading = FALSE]
        resp  == cs[1].res
    IN  IF resp.ok /\ Len(resp.results) > 0
        THEN LET updates == SingleFindUpdates(r.headers, resp.results)
             IN  Notify(steps, [vs EXCEPT ![r.step] = [reset EXCEPT !.data = updates]],
                        r.step, updates)
        ELSE IF resp.ok
        THEN Quiet(steps, vs)
        ELSE Quiet(steps, [vs EXCEPT ![r.step] = reset])

\* handleRunFind of SingleSpreadsheet after its await
SingleFindSettle(r, cs, steps, vs) ==
    LET v     == vs[r.step]
        reset == [v EXCEPT !.isRunningFind = FALSE, !.isLoading = FALSE]
        resp  == cs[1].res
    IN  IF resp.ok /\ Len(resp.results) > 0
        THEN LET updates == SingleFindUpdates(r.headers, resp.results)
             IN  Notify(steps, [vs EXCEPT ![r.step] = [reset EXCEPT !.data = updates]],
                        r.step, updates)
        ELSE Quiet(steps, [vs EXCEPT ![r.step] = reset])

SingleRunCellsSettle(r, cs, steps, vs) ==
    LET v       == vs[r.step]
        newData == [k \in 1..Len(r.data) |->
                      IF HasCall(cs, 0, k)
                      THEN SingleRunCellsRow(r.data[k], k - 1, r.headers,
                                             CallOf(cs, 0, k).res)
                      ELSE r.data[k]]
    IN  Notify(steps,
               [vs EXCEPT ![r.step] = [v EXCEPT !.isRunningCells = FALSE,
                                                !.isLoading = FALSE,
                                                !.data = newData]],
               r.step, newData)

AggregationSettle(r, cs, steps, vs, rejected) ==
    LET v      == vs[r.step]
        reset  == [v EXCEPT !.isRunningAggregation = FALSE, !.isLoading = FALSE]
        \* reading a header's key of a null aggregatedInsights throws
        throws == /\ Len(r.headers) >= 2
                  /\ \E k \in 1..Len(cs) : cs[k].res.insightsNull
    IN  IF rejected \/ throws
        THEN Quiet(steps, [vs EXCEPT ![r.step] = reset])
        ELSE LET kept    == SelectSeq(cs, LAMBDA c : c.res.success)
                 newData == [k \in 1..Len(kept) |->
                               AggregationRow(kept[k].res, kept[k].sheet - 1, r.headers)]
             IN  Notify(steps, [vs EXCEPT ![r.step] = [reset EXCEPT !.data = newData]],
                        r.step, newData)

ThreeDSettle(r, cs, steps, vs, rejected) ==
    LET v      == vs[r.step]
        reset  == IF r.kind = "threeDFind"
                  THEN [v EXCEPT !.isRunningFind = FALSE]
                  ELSE [v EXCEPT !.isRunningCells = FALSE]
        sheets == SheetsWithOrigin(r.data)
        rows(k) ==
            IF r.kind = "threeDFind"
            THEN ThreeDFindRows(r.headers, CallOf(cs, k, 0).res.results)
            ELSE [j \in 1..Len(r.sheetData[k]) |->
                     ThreeDRunCellsRow(r.sheetData[k][j], j - 1, r.data[k].prevRow,
                                       CallOf(cs, k, j).res)]
        updates == [n \in 1..Len(sheets) |->
                      [prevRow |-> r.data[sheets[n]].prevRow, data |-> rows(sheets[n])]]
    IN  IF rejected
        THEN Quiet(steps, [vs EXCEPT ![r.step] = reset])
        ELSE Notify(steps,
                    [vs EXCEPT ![r.step] =
                        [reset EXCEPT !.sheetData =
                            [n \in 1..Len(updates) |-> updates[n].data]]],
                    r.step, updates)

\* handlePipeToLLM of LLMPipeSpreadsheet after its await: the outputs go to
\* column 1 of the rows the handler captured, outputs[index]?.text || ''
LLMPipeSettle(r, cs, steps, vs) ==
    LET v     == vs[r.step]
        reset == [v EXCEPT !.isRunning = FALSE]
        resp  == cs[1].res
    IN  IF resp.ok
        THEN LET newData == [k \in 1..Len(r.data) |->
                               << r.data[k][1],
                                  Cell(IF k <= Len(resp.outputs) THEN resp.outputs[k]
                                       ELSE "",
                                       r.data[k][1].row, 1) >>]
             IN  Notify(steps, [vs EXCEPT ![r.step] = [reset EXCEPT !.data = newData]],
                        r.step, newData)
        ELSE Quiet(steps, [vs EXCEPT ![r.step] = reset])

Settle(r, cs, steps, vs, rejected) ==
    CASE r.kind = "singleFind"     -> SingleFindSettle(r, cs, steps, vs)
      [] r.kind = "pipeToLLM"      -> LLMPipeSettle(r, cs, steps, vs)
      [] r.kind = "singleRunCells" -> SingleRunCellsSettle(r, cs, steps, vs)
      [] r.kind = "aggregate"      -> AggregationSettle(r, cs, steps, vs, rejected)
      [] OTHER                     -> ThreeDSettle(r, cs, steps, vs, rejected)

----------------------------------------------------------------------------
(* Starting a handler: the state it captures, the flags it sets and the    *)
(* calls it issues.  `by` tells whether runAll or the user started it.     *)

Closure(kind, step, by, data, headers, sheetData) ==
    [ kind |-> kind, step |-> step, byRunAll |-> by,
      data |-> data, headers |-> headers, sheetData |-> sheetData ]

\* SingleSpreadsheet.handleRunFind up to its await
SingleFindBegin(i, by) ==
    LET v == views[i]
    IN  [ skip  |-> v.isRunningFind,
          view  |-> [v EXCEPT !.isRunningFind = TRUE, !.isLoading = TRUE],
          run   |-> Closure("singleFind", i, by, v.data, v.headers, <<>>),
          calls |-> << Call(i, "find", 0, 0, <<>>, <<>>) >>,
          rejected |-> FALSE ]

\* SingleSpreadsheet.handleRunCells up to its await
SingleRunCellsBegin(i, by) ==
    LET v    == views[i]
        rows == SelectSeq([k \in 1..Len(v.data) |-> k],
                          LAMBDA k : SingleRowHasInput(v.data[k]))
    IN  [ skip  |-> v.isRunningCells,
          view  |-> [v EXCEPT !.isRunningCells = TRUE, !.isLoading = TRUE],
          run   |-> Closure("singleRunCells", i, by, v.data, v.headers, <<>>),
          calls |-> [n \in 1..Len(rows) |->
                       Call(i, "runCells", 0, rows[n], Dedupe(Tail(v.headers)), <<>>)],
          rejected |-> FALSE ]

\* renderStep, case 'aggregation': the 3D data the aggregation view is given
SourceOf(steps, i) ==
    IF i > 1 /\ steps[i - 1].type = "3d" THEN steps[i - 1].data ELSE <<>>

\* SingleSpreadsheet.handleRunAggregation up to its await
AggregationBegin(i, by) ==
    LET v   == views[i]
        src == SourceOf(workflowSteps, i)
    IN  [ skip  |-> ~v.isAggregation,
          view  |-> [v EXCEPT !.isRunningAggregation = TRUE, !.isLoading = TRUE],
          run   |-> Closure("aggregate", i, by, src, v.headers, <<>>),
          calls |-> [k \in 1..Len(src) |->
                       Call(i, "aggregate", k, 0, Dedupe(Tail(v.headers)),
                            src[k].prevRow)],
          rejected |-> FALSE ]

\* ThreeDSpreadsheet.handleRunFind up to its await
ThreeDFindBegin(i, by) ==
    LET v      == views[i]
        data   == workflowSteps[i].data
        sheets == SheetsWithOrigin(data)
    IN  [ skip  |-> FALSE,
          view  |-> [v EXCEPT !.isRunningFind = TRUE],
          run   |-> Closure("threeDFind", i, by, data, v.headers, v.sheetData),
          calls |-> [n \in 1..Len(sheets) |->
                       Call(i, "find", sheets[n], 0, <<>>, <<>>)],
          rejected |-> FALSE ]

\* the <<sub-sheet, row>> pairs of the sub-sheets `sheets`, in order
RECURSIVE SheetRowPairs(_, _)
SheetRowPairs(sheetData, sheets) ==
    IF Len(sheets) = 0 THEN <<>>
    ELSE [j \in 1..Len(sheetData[sheets[1]]) |-> <<sheets[1], j>>]
         \o SheetRowPairs(sheetData, Tail(sheets))

\* ThreeDSpreadsheet.handleRunCells up to its await: one call for every row of
\* every sub-sheet; a sub-sheet the view holds no grid for throws at once
ThreeDRunCellsBegin(i, by) ==
    LET v      == views[i]
        data   == workflowSteps[i].data
        sheets == SheetsWithOrigin(data)
        known  == SelectSeq(sheets, LAMBDA k : k <= Len(v.sheetData))
        pairs  == SheetRowPairs(v.sheetData, known)
    IN  [ skip  |-> FALSE,
          view  |-> [v EXCEPT !.isRunningCells = TRUE],
          run   |-> Closure("threeDRunCells", i, by, data, v.headers, v.sheetData),
          calls |-> [n \in 1..Len(pairs) |->
                       Call(i, "runCells", pairs[n][1], pairs[n][2],
                            Dedupe(v.headers), <<>>)],
          rejected |-> Len(known) # Len(sheets) ]

\* LLMPipeSpreadsheet.handlePipeToLLM up to its await: one call, with one
\* input per row of the source
LLMPipeBegin(i, by) ==
    LET v == views[i]
    IN  [ skip  |-> FALSE,
          view  |-> [v EXCEPT !.isRunning = TRUE],
          run   |-> Closure("pipeToLLM", i, by, v.data, v.headers, <<>>),
          calls |-> << Call(i, "llm", 0, 0, <<>>, LLMViewSource(workflowSteps, i)) >>,
          rejected |-> FALSE ]

Begin(kind, i, by) ==
    CASE kind = "singleFind"     -> SingleFindBegin(i, by)
      [] kind = "pipeToLLM"      -> LLMPipeBegin(i, by)
      [] kind = "singleRunCells" -> SingleRunCellsBegin(i, by)
      [] kind = "aggregate"      -> AggregationBegin(i, by)
      [] kind = "threeDFind"     -> ThreeDFindBegin(i, by)
      [] OTHER                   -> ThreeDRunCellsBegin(i, by)

----------------------------------------------------------------------------
(* The state machine *)

\* agent() of lib/agent.ts: the cache keys md5(url + JSON.stringify(options))
\* of the requests made
CacheKeys == {"k1", "k2"}

\* the bodies the remote service may answer with
Bodies == {"x", "y"}

\* the clock does not go beyond MaxClock, and agent is called at most
\* MaxRequests times
MaxClock == 4
MaxRequests == 4

\* CACHE_DURATION (24 hours), in ticks of the clock
CacheDuration == 2

\* fs.existsSync(cachePath) is false
NoEntry == [none |-> TRUE]

\* the CacheEntry written at time t
CacheEntry(data, t) == [data |-> data, timestamp |-> t, expiresAt |-> t + CacheDuration]

\* the cache check as it would be with no test of expiresAt (as llm() of
\* lib/llm.ts answers from its file whenever it exists)
AgentLookupIgnoringExpiry(entry, t) ==
    IF entry = NoEntry THEN "miss" ELSE "hit"

\* the cache check of agent at time t: new Date(cached.expiresAt) > new Date()
AgentLookup(entry, t) ==
    IF entry = NoEntry THEN "miss"
    ELSE IF entry.expiresAt > t THEN "hit"
    ELSE "expired"

\* what the fetch of agent may end with: a 2xx response with a JSON body, a
\* non-2xx response, or a rejection (network error, abort after the timeout,
\* a body that is not JSON)
FetchOutcomes ==
    {[ok |-> TRUE, data |-> d] : d \in Bodies}
    \cup {[ok |-> FALSE, thrown |-> FALSE], [ok |-> FALSE, thrown |-> TRUE]}

Event(op, step, edit, data, r, rejected) ==
    [ op |-> op, step |-> step, edit |-> edit, data |-> data,
      run |-> r, rejected |-> rejected ]

Idle ==
    [ pc |-> "idle", i |-> 0, phase |-> "first", types |-> <<>>, invoked |-> <<>>,
      firstFailure |-> 0 ]

Init ==
    /\ workflowSteps = <<>>
    /\ views = <<>>
    /\ isRunningAll = FALSE
    /\ runAll = Idle
    /\ run = NoRun
    /\ calls = <<>>
    /\ log = Event("init", 0, FALSE, <<>>, NoRun, FALSE)
    /\ cache = [k \in CacheKeys |-> NoEntry]
    /\ now = 0
    /\ requests = {}
    /\ issued = 0
    /\ reply = [op |-> "none", id |-> 0]
    /\ written = {}

\* the user acts only while no handler and no runAll is under way
Quiescent == run = NoRun /\ runAll.pc \in {"idle", "done"}

IsSheet(i) ==
    i \in 1..Len(workflowSteps) /\ workflowSteps[i].type \in {"single", "aggregation"}

IsStack(i) == i \in 1..Len(workflowSteps) /\ workflowSteps[i].type = "3d"

IsPipe(i) == i \in 1..Len(workflowSteps) /\ workflowSteps[i].type = "llm_pipe"

\* renderActionButtons as it would be if every step offered to append
IsAnyStep(i) == i \in 1..Len(workflowSteps)

\* renderActionButtons: only the last step offers to append
IsLast(i) == Len(workflowSteps) > 0 /\ i = Len(workflowSteps)

\* renderActionButtons: the buttons under a last step of this type
Buttons(type) ==
    CASE type = "3d"                        -> {"Aggregate Data"}
      [] type \in {"single", "aggregation"} -> {"Create 3D Sheet", "Pipe to LLM"}
      [] OTHER                              -> {}

\* a synchronous SingleSpreadsheet handler returned `r` for step i
Store(op, i, r) ==
    LET vs1 == [views EXCEPT ![i].data = r.data, ![i].headers = r.headers]
    IN  /\ IF r.changed
           THEN /\ workflowSteps' = HandleDataChange(workflowSteps, i, r.data)
                /\ views' = ViewsAfter(vs1, workflowSteps, workflowSteps', i)
           ELSE /\ workflowSteps' = workflowSteps
                /\ views' = vs1
        /\ log' = Event(op, i, r.changed, IF r.changed THEN r.data ELSE <<>>, NoRun, FALSE)
        /\ UNCHANGED <<cacheVars, isRunningAll, runAll, run, calls>>

\* handleCreateInitialSheet
CreateInitialSheet ==
    /\ Quiescent
    /\ Len(workflowSteps) = 0
    /\ workflowSteps' = << Step("single", BlankGrid) >>
    /\ views' = << SingleInitial(FALSE, <<>>) >>
    /\ log' = Event("createInitialSheet", 1, FALSE, <<>>, NoRun, FALSE)
    /\ UNCHANGED <<cacheVars, isRunningAll, runAll, run, calls>>

\* SingleSpreadsheet.handleCellChange
SetCell(i, row, col, value) ==
    /\ Quiescent /\ IsSheet(i)
    /\ row <= Len(views[i].data) /\ row < MaxRows
    /\ col < Len(views[i].headers)
    /\ Store("setCell", i,
             SingleCellChange(views[i].data, views[i].headers, row, col, value))

\* SingleSpreadsheet.handleAddRow: onRowsChanged is not called
AddRow(i) ==
    /\ Quiescent /\ IsSheet(i)
    /\ Len(views[i].data) < MaxRows
    /\ Store("addRow", i,
             [ data |-> SingleAddRow(views[i].data, views[i].headers),
               headers |-> views[i].headers, changed |-> FALSE ])

\* SingleSpreadsheet.handleDeleteRow: onRowsChanged is not called
DeleteRow(i, rowIndex) ==
    /\ Quiescent /\ IsSheet(i)
    /\ rowIndex < Len(views[i].data)
    /\ Store("deleteRow", i,
             [ data |-> SingleDeleteRow(views[i].data, rowIndex),
               headers |-> views[i].headers, changed |-> FALSE ])

\* SingleSpreadsheet.handleAddColumn
AddColumn(i) ==
    /\ Quiescent /\ IsSheet(i)
    /\ Len(views[i].headers) < MaxCols
    /\ Len(views[i].data) > 0 => \A r \in 1..Len(views[i].data) : Len(views[i].data[r]) > 0
    /\ Store("addColumn", i, SingleAddColumn(views[i].data, views[i].headers))

\* SingleSpreadsheet.handleDeleteColumn
DeleteColumn(i, colIndex) ==
    /\ Quiescent /\ IsSheet(i)
    /\ colIndex < Len(views[i].headers)
    /\ Store("deleteColumn", i,
             SingleDeleteColumn(views[i].data, views[i].headers, colIndex))

\* ThreeDSpreadsheet.handleAddColumn
StackAddColumn(i, sheetIndex) ==
    /\ Quiescent /\ IsStack(i)
    /\ Len(views[i].headers) < MaxCols
    /\ sheetIndex < Len(views[i].sheetData)
    /\ \A k \in 1..Len(views[i].sheetData[sheetIndex + 1]) :
          Len(views[i].sheetData[sheetIndex + 1][k]) < MaxCols
    /\ LET r   == ThreeDAddColumn(views[i], workflowSteps[i].data, sheetIndex)
           vs1 == [views EXCEPT ![i].headers = r.headers, ![i].sheetData = r.sheetData]
       IN  /\ workflowSteps' = HandleDataChange(workflowSteps, i, r.newData)
           /\ views' = ViewsAfter(vs1, workflowSteps, workflowSteps', i)
           /\ log' = Event("stackAddColumn", i, TRUE, r.newData, NoRun, FALSE)
    /\ UNCHANGED <<cacheVars, isRunningAll, runAll, run, calls>>

\* ThreeDSpreadsheet.handleDeleteColumn
StackDeleteColumn(i, sheetIndex, colIndex) ==
    /\ Quiescent /\ IsStack(i)
    /\ sheetIndex < Len(views[i].sheetData)
    /\ colIndex < Len(views[i].headers)
    /\ LET r   == ThreeDDeleteColumn(views[i], workflowSteps[i].data, sheetIndex, colIndex)
           vs1 == [views EXCEPT ![i].headers = r.headers, ![i].sheetData = r.sheetData]
       IN  /\ IF r.changed
              THEN /\ workflowSteps' = HandleDataChange(workflowSteps, i, r.newData)
                   /\ views' = ViewsAfter(vs1, workflowSteps, workflowSteps', i)
              ELSE /\ workflowSteps' = workflowSteps
                   /\ views' = vs1
           /\ log' = Event("stackDeleteColumn", i, r.changed,
                           IF r.changed THEN r.newData ELSE <<>>, NoRun, FALSE)
    /\ UNCHANGED <<cacheVars, isRunningAll, runAll, run, calls>>

\* the "Create 3D Sheet" button: handleCreateThreeDSheet and the mount of the view
CreateThreeDSheet(i) ==
    /\ Quiescent /\ IsLast(i) /\ Len(workflowSteps) < MaxSteps
    /\ workflowSteps[i].type \in {"single", "aggregation"}
    /\ workflowSteps' = HandleCreateThreeDSheet(workflowSteps, i)
    /\ views' = Append(views, ThreeDDataEffect(ThreeDInitial, workflowSteps'[i + 1].data))
    /\ log' = Event("appendThreeD", i, FALSE, <<>>, NoRun, FALSE)
    /\ UNCHANGED <<cacheVars, isRunningAll, runAll, run, calls>>

\* the "Aggregate Data" button: handleAggregate and the mount of the view, whose
\* columns are the headers of the 3D view before it
Aggregate(i) ==
    /\ Quiescent /\ IsLast(i) /\ Len(workflowSteps) < MaxSteps
    /\ workflowSteps[i].type = "3d"
    /\ workflowSteps' = HandleAggregate(workflowSteps, i)
    /\ views' = Append(views, SingleInitial(TRUE, views[i].headers))
    /\ log' = Event("appendAggregation", i, FALSE, <<>>, NoRun, FALSE)
    /\ UNCHANGED <<cacheVars, isRunningAll, runAll, run, calls>>

\* the "Pipe to LLM" button: handleCreateLLMPipe and the mount of the view
CreateLLMPipe(i) ==
    /\ Quiescent /\ IsLast(i) /\ Len(workflowSteps) < MaxSteps
    /\ "Pipe to LLM" \in Buttons(workflowSteps[i].type)
    /\ workflowSteps' = HandleCreateLLMPipe(workflowSteps, i)
    /\ views' = Append(views, LLMInitial(LLMViewSource(workflowSteps', i + 1),
                                          views[i].headers))
    /\ log' = Event("appendLLMPipe", i, FALSE, <<>>, NoRun, FALSE)
    /\ UNCHANGED <<cacheVars, isRunningAll, runAll, run, calls>>

----------------------------------------------------------------------------
(* Handlers in flight *)

\* runAll as it would be with the loop's outer try/catch only: after a handler
\* in which something failed the loop is left
AdvanceUnlessFailed(ra, kind) ==
    IF ra.firstFailure # 0
    THEN [ra EXCEPT !.pc = "ready", !.phase = "first", !.i = Len(ra.types) + 1]
    ELSE IF kind \in {"singleFind", "threeDFind"}
    THEN [ra EXCEPT !.pc = "ready", !.phase = "cells"]
    ELSE [ra EXCEPT !.pc = "ready", !.phase = "first", !.i = ra.i + 1]

\* where runAll continues once the handler it awaited has returned
Advance(ra, kind) ==
    IF kind \in {"singleFind", "threeDFind"}
    THEN [ra EXCEPT !.pc = "ready", !.phase = "cells"]
    ELSE [ra EXCEPT !.pc = "ready", !.phase = "first", !.i = ra.i + 1]

\* does the handler return before any of its calls can come back?
ReturnsAtOnce(b) == b.skip \/ b.rejected \/ Len(b.calls) = 0

\* The handler `kind` of step i is called.  It runs to its first await, and
\* beyond it when it has nothing to await.
Launch(kind, i, by) ==
    LET b   == Begin(kind, i, by)
        vs1 == [views EXCEPT ![i] = b.view]
    IN  IF b.skip
        THEN /\ UNCHANGED <<workflowSteps, views, run, calls>>
             /\ log' = Event("skipped", i, FALSE, <<>>, b.run, FALSE)
        ELSE IF ReturnsAtOnce(b)
        THEN LET out == Settle(b.run, <<>>, workflowSteps, vs1, b.rejected)
             IN  /\ workflowSteps' = out.steps
                 /\ views' = out.views
                 /\ run' = NoRun
                 /\ calls' = Pending(calls) \o Orphan(b.calls)
                 /\ log' = Event("settled", i, out.edit, out.data, b.run, b.rejected)
        ELSE /\ views' = vs1
             /\ run' = b.run
             /\ calls' = Pending(calls) \o b.calls
             /\ workflowSteps' = workflowSteps
             /\ log' = Event("started", i, FALSE, <<>>, b.run, FALSE)

\* the user's Run buttons; a new run waits until earlier calls are all back
UserRun(kind, i) ==
    /\ Quiescent
    /\ Len(Pending(calls)) = 0
    /\ Launch(kind, i, FALSE)
    /\ UNCHANGED <<cacheVars, isRunningAll, runAll>>

RunFind(i) ==
    /\ IsSheet(i) /\ ~views[i].isAggregation
    /\ UserRun("singleFind", i)

RunCells(i) ==
    /\ IsSheet(i) /\ ~views[i].isAggregation
    /\ UserRun("singleRunCells", i)

RunAggregation(i) ==
    /\ IsSheet(i) /\ views[i].isAggregation /\ ~views[i].isRunningAggregation
    /\ UserRun("aggregate", i)

StackRunFind(i) == IsStack(i) /\ UserRun("threeDFind", i)

\* the "Run LLM" button, disabled while isRunning
RunLLM(i) == IsPipe(i) /\ ~views[i].isRunning /\ UserRun("pipeToLLM", i)

StackRunCells(i) == IsStack(i) /\ UserRun("threeDRunCells", i)

\* what the collaborator may answer to call c
Responses(c) ==
    CASE c.kind = "find"     -> FindResponses
      [] c.kind = "runCells" -> RunCellsResponses(c.keys)
      [] c.kind = "llm"      -> LLMPipeResponses(Len(c.origin))
      [] OTHER -> { AggregatePOST(c.origin, SheetLabel(c.sheet), llm) :
                        llm \in LLMOutcomes(c.keys) }

\* does a failed call reject the Promise.all of the handler?  (handleRunCells
\* of SingleSpreadsheet catches inside each row's promise)
FailFast(kind) == kind \in {"aggregate", "threeDFind", "threeDRunCells"}

\* did the call fail, or does its answer make the handler throw?
Failure(resp) ==
    \/ ~resp.ok
    \/ "success" \in DOMAIN resp /\ ~resp.success
    \/ "insightsNull" \in DOMAIN resp /\ resp.insightsNull

\* A call comes back.  If that settles the handler awaiting it, the handler
\* continues at once, and runAll after it.  (runAll.firstFailure records, for
\* the run of runAll under way, the step of the first call that failed.)
CallReturn(c, resp) ==
    /\ c \in 1..Len(calls)
    /\ calls[c].status = "pending"
    /\ resp \in Responses(calls[c])
    /\ LET cs1 == [calls EXCEPT ![c].status = IF resp.ok THEN "ok" ELSE "fail",
                                ![c].res = resp]
           rejected == ~resp.ok /\ FailFast(run.kind)
           allBack  == \A k \in 1..Len(cs1) : cs1[k].live => cs1[k].status # "pending"
           seen     == IF isRunningAll /\ Failure(resp) /\ runAll.firstFailure = 0
                       THEN [runAll EXCEPT !.firstFailure = calls[c].step]
                       ELSE runAll
       IN  IF calls[c].live /\ (rejected \/ allBack)
           THEN LET out == Settle(run, LiveCalls(cs1), workflowSteps, views, rejected)
                IN  /\ workflowSteps' = out.steps
                    /\ views' = out.views
                    /\ run' = NoRun
                    /\ calls' = Orphan(cs1)
                    /\ runAll' = IF run.byRunAll THEN Advance(seen, run.kind) ELSE seen
                    /\ log' = Event("settled", run.step, out.edit, out.data, run, rejected)
           ELSE /\ calls' = cs1
                /\ runAll' = seen
                /\ UNCHANGED <<workflowSteps, views, run, log>>
    /\ UNCHANGED <<cacheVars, isRunningAll>>

----------------------------------------------------------------------------
(* runAll *)

\* the handler runAll calls for a step of this type in this phase
HandlerFor(type, phase) ==
    CASE type = "single" -> IF phase = "first" THEN "singleFind" ELSE "singleRunCells"
      [] type = "3d"     -> IF phase = "first" THEN "threeDFind" ELSE "threeDRunCells"
      [] type = "llm_pipe" -> "pipeToLLM"
      [] OTHER           -> "aggregate"

\* the "Run All Steps" button
RunAllStart ==
    /\ Quiescent /\ ~isRunningAll
    /\ Len(workflowSteps) > 0
    /\ Len(Pending(calls)) = 0
    /\ isRunningAll' = TRUE
    /\ runAll' = [ pc |-> "ready", i |-> 1, phase |-> "first",
                   types |-> [k \in 1..Len(workflowSteps) |-> workflowSteps[k].type],
                   invoked |-> <<>>, firstFailure |-> 0 ]
    /\ log' = Event("runAll", 0, FALSE, <<>>, NoRun, FALSE)
    /\ UNCHANGED <<cacheVars, workflowSteps, views, run, calls>>

\* the body of the loop: after the delay, the next handler of step i is called
RunAllInvoke ==
    /\ runAll.pc = "ready" /\ run = NoRun
    /\ runAll.i <= Len(runAll.types)
    /\ LET kind == HandlerFor(runAll.types[runAll.i], runAll.phase)
           b    == Begin(kind, runAll.i, TRUE)
           ra   == [runAll EXCEPT !.invoked = Append(@, <<runAll.i, kind>>),
                                  !.firstFailure =
                                      IF @ = 0 /\ ~b.skip /\ b.rejected
                                      THEN runAll.i ELSE @]
       IN  /\ Launch(kind, runAll.i, TRUE)
           /\ runAll' = IF ReturnsAtOnce(b)
                        THEN Advance(ra, kind)
                        ELSE [ra EXCEPT !.pc = "await"]
    /\ UNCHANGED <<cacheVars, isRunningAll>>

\* the loop is over: finally { setIsRunningAll(false) }
RunAllFinish ==
    /\ runAll.pc = "ready" /\ run = NoRun
    /\ runAll.i > Len(runAll.types)
    /\ isRunningAll' = FALSE
    /\ runAll' = [runAll EXCEPT !.pc = "done"]
    /\ log' = Event("runAllDone", 0, FALSE, <<>>, NoRun, FALSE)
    /\ UNCHANGED <<cacheVars, workflowSteps, views, run, calls>>

----------------------------------------------------------------------------
(* Specifications *)

Rows == 0..MaxRows
Cols == 0..MaxCols
StepIds == 1..MaxSteps

\* every synchronous handler of the SingleSpreadsheet view of step i
EditSheet(i) ==
    \/ \E r \in Rows, c \in Cols, v \in CellValues : SetCell(i, r, c, v)
    \/ AddRow(i)
    \/ \E r \in Rows : DeleteRow(i, r)
    \/ AddColumn(i)
    \/ \E c \in Cols : DeleteColumn(i, c)

Return == \E c \in 1..Len(calls) : \E resp \in Responses(calls[c]) : CallReturn(c, resp)

\* A Single sheet under the user's hands, with its Run buttons, and a 3D step
\* appended to it at any moment.
Next ==
    \/ CreateInitialSheet
    \/ EditSheet(1)
    \/ RunFind(1)
    \/ RunCells(1)
    \/ CreateThreeDSheet(1)
    \/ Return

Spec == Init /\ [][Next]_vars

\* the user types a name into column 0 of the first sheet
SetInput == \E r \in Rows, v \in CellValues : SetCell(1, r, 0, v)

\* A workflow Single, 3D, Aggregation is built, the 3D stack may get a column
\* before the aggregation step is appended, and the aggregation view is under
\* the user's hands, with its Run button.
NextAggregation ==
    \/ CreateInitialSheet
    \/ Len(workflowSteps) = 1 /\ SetInput
    \/ CreateThreeDSheet(1)
    \/ Len(workflowSteps) = 2 /\ \E s \in Rows : StackAddColumn(2, s)
    \/ Aggregate(2)
    \/ \E r \in Rows, c \in Cols, v \in CellValues : SetCell(3, r, c, v)
    \/ AddRow(3)
    \/ RunAggregation(3)
    \/ Return

SpecAggregation == Init /\ [][NextAggregation]_vars

\* A workflow Single, 3D is built and the Run buttons of the 3D stack are used.
NextStack ==
    \/ CreateInitialSheet
    \/ Len(workflowSteps) = 1 /\ SetInput
    \/ CreateThreeDSheet(1)
    \/ StackRunFind(2)
    \/ StackRunCells(2)
    \/ Return

SpecStack == Init /\ [][NextStack]_vars

\* A workflow Single, 3D, Aggregation is built and then run with "Run All
\* Steps".
NextRunAll ==
    \/ CreateInitialSheet
    \/ Len(workflowSteps) = 1 /\ SetInput
    \/ CreateThreeDSheet(1)
    \/ Aggregate(2)
    \/ runAll.pc = "idle" /\ RunAllStart
    \/ RunAllInvoke
    \/ RunAllFinish
    \/ Return

SpecRunAll == Init /\ [][NextRunAll]_vars

\* the columns of a Single sheet and of the 3D stack appended to it
NextColumns ==
    \/ CreateInitialSheet
    \/ \E r \in Rows, c \in Cols, v \in CellValues : SetCell(1, r, c, v)
    \/ AddColumn(1)
    \/ \E c \in Cols : DeleteColumn(1, c)
    \/ CreateThreeDSheet(1)
    \/ \E s \in Rows : StackAddColumn(2, s)
    \/ \E s \in Rows, c \in Cols : StackDeleteColumn(2, s, c)

SpecColumns == Init /\ [][NextColumns]_vars

\* Workflows are built with the buttons under the last step; the first
\* column of every sheet is under the user's hands, and so is "Run LLM".
NextBuild ==
    \/ CreateInitialSheet
    \/ \E i \in StepIds, r \in Rows, v \in CellValues : SetCell(i, r, 0, v)
    \/ \E i \in StepIds : CreateThreeDSheet(i)
    \/ \E i \in StepIds : Aggregate(i)
    \/ \E i \in StepIds : CreateLLMPipe(i)
    \/ \E i \in StepIds : RunLLM(i)
    \/ Return

SpecBuild == Init /\ [][NextBuild]_vars

----------------------------------------------------------------------------
(* Claims checked under Spec *)

\* step i is a Single step and the step after it is a 3D step
SingleBeforeStack(i) ==
    /\ i >= 1 /\ i + 1 <= Len(workflowSteps)
    /\ workflowSteps[i].type = "single"
    /\ workflowSteps[i + 1].type = "3d"

\* C2: after handleDataChange(i, data) on a Single step that a 3D step follows,
\* the 3D step has exactly data.length sub-sheets and the origin row (prevRow)
\* of sub-sheet k is data[k].
C2_PropagationLaw ==
    (log.edit /\ SingleBeforeStack(log.step)) =>
        LET stack == workflowSteps[log.step + 1].data
        IN  /\ Len(stack) = Len(log.data)
            /\ \A k \in 1..Len(stack) : stack[k].prevRow = log.data[k]

C2_Witness ==
    /\ log.edit /\ SingleBeforeStack(log.step)
    /\ Len(log.data) = 2
    /\ log.data[1] # log.data[2]
    /\ Len(workflowSteps[log.step + 1].data) = 2

\* C3: the 3D step appended from a Single step has one sub-sheet per row of
\* the Single sheet's grid at that moment, sub-sheet k's origin row being grid
\* row k.
C3_AppendThreeDFromGrid ==
    (log.op = "appendThreeD" /\ workflowSteps[log.step].type = "single") =>
        LET grid  == views[log.step].data
            stack == workflowSteps[Len(workflowSteps)].data
        IN  /\ Len(stack) = Len(grid)
            /\ \A k \in 1..Len(stack) : stack[k].prevRow = grid[k]

\* the calls of the runCells of a Single sheet that is running or has just ended
RowCalls == SelectSeq(calls, LAMBDA c : c.kind = "runCells" /\ c.sheet = 0)

RowCalled(k) == \E n \in 1..Len(RowCalls) : RowCalls[n].row = k

RowCall(k) == RowCalls[CHOOSE n \in 1..Len(RowCalls) : RowCalls[n].row = k]

\* a runCells of a Single sheet has just ended
RunCellsEnded == log.op = "settled" /\ log.run.kind = "singleRunCells"

\* the value in column 0 of a row is empty
BlankInput(row) == Len(row) = 0 \/ row[1].value = ""

\* C9: runCells on a Single sheet issues no call for a row whose column-0
\* value is empty, and leaves that row as it was, whatever the other rows get.
C9_SkipLaw ==
    /\ run.kind = "singleRunCells" =>
          \A k \in 1..Len(run.data) : BlankInput(run.data[k]) => ~RowCalled(k)
    /\ RunCellsEnded =>
          \A k \in 1..Len(log.run.data) :
              BlankInput(log.run.data[k]) =>
                  /\ ~RowCalled(k)
                  /\ k <= Len(views[log.step].data)
                  /\ views[log.step].data[k] = log.run.data[k]
                  /\ workflowSteps[log.step].data[k] = log.run.data[k]

C9_Witness ==
    /\ RunCellsEnded
    /\ Len(log.run.data) = 2
    /\ BlankInput(log.run.data[1])
    /\ Len(log.run.data[1]) = 2 /\ log.run.data[1][2].value # ""
    /\ RowCalled(2) /\ RowCall(2).status = "ok" /\ RowCall(2).res.success
    /\ views[log.step].data[2] # log.run.data[2]

\* the value the answer holds for a header name, blank when it holds none
Returned(results, header) ==
    IF \E n \in 1..Len(results) : results[n].key = header
    THEN (CHOOSE e \in {results[n] : n \in 1..Len(results)} : e.key = header).value
    ELSE ""

Succeeded(c) == c.status = "ok" /\ c.res.success

\* C10: in runCells on a Single sheet every row with a column-0 value gets its
\* call; a row whose call failed (non-2xx, network error, success=false) is
\* left as it was, and a row whose call succeeded keeps column 0 and has every
\* other column replaced by the returned value keyed by the header's name.
C10_RowIsolation ==
    RunCellsEnded =>
        LET before  == log.run.data
            after   == views[log.step].data
            headers == views[log.step].headers
        IN  /\ Len(after) = Len(before)
            /\ \A k \in 1..Len(before) :
                  /\ ~BlankInput(before[k]) => RowCalled(k)
                  /\ RowCalled(k) =>
                        /\ RowCall(k).status # "pending"
                        /\ IF Succeeded(RowCall(k))
                           THEN /\ Len(after[k]) = Len(headers)
                                /\ after[k][1].value = before[k][1].value
                                /\ \A j \in 2..Len(headers) :
                                      after[k][j].value =
                                          Returned(RowCall(k).res.results, headers[j])
                           ELSE after[k] = before[k]

C10_Witness ==
    /\ RunCellsEnded
    /\ Len(log.run.data) = 2
    /\ RowCalled(1) /\ RowCalled(2)
    /\ RowCall(1).status = "fail"
    /\ Len(log.run.data[1]) = 2 /\ log.run.data[1][2].value # ""
    /\ Succeeded(RowCall(2))
    /\ Len(RowCall(2).res.results) = 1
    /\ views[log.step].data[2][2].value = "x"

----------------------------------------------------------------------------
(* Claims checked under SpecAggregation *)

\* a synchronous edit of sheet i has just been made, or a runFind or runCells
\* of it has just completed
JustChanged(i) ==
    /\ log.step = i
    /\ \/ log.op = "setCell" /\ log.edit
       \/ log.op \in {"addRow", "deleteRow", "addColumn", "deleteColumn"}
       \/ log.op = "settled" /\ log.run.kind \in {"singleFind", "singleRunCells"}

\* C1: after a setCell, addRow, deleteRow, addColumn, deleteColumn or a
\* completed runFind or runCells on a Single-Sheet view, an aggregation target
\* included, every row of its grid has exactly headers.length cells.
C1_RowWidth ==
    \A i \in 1..Len(views) :
        (IsSheet(i) /\ JustChanged(i)) =>
            \A r \in 1..Len(views[i].data) :
                Len(views[i].data[r]) = Len(views[i].headers)

\* the call made for sub-sheet k by the runAggregation that has just ended
AggregateCall(k) ==
    calls[CHOOSE n \in 1..Len(calls) :
              calls[n].kind = "aggregate" /\ calls[n].sheet = k]

\* the name of sub-sheet k: the column-0 value of its origin row, `Sheet k`
\* when that is blank
SubSheetName(prevRow, k) ==
    IF Len(prevRow) > 0 /\ prevRow[1].value # "" THEN prevRow[1].value
    ELSE "Sheet " \o ToString(k)

\* C8: a runAggregation over a source stack of n sub-sheets leaves the grid
\* with exactly n rows, row k having the name of sub-sheet k in column 0 and in
\* every other column the value the call for sub-sheet k returned under that
\* column's header name, blank when it returned none.
C8_OneRowPerSubSheet ==
    (log.op = "settled" /\ log.run.kind = "aggregate") =>
        LET source  == log.run.data
            grid    == views[log.step].data
            headers == views[log.step].headers
        IN  /\ Len(grid) = Len(source)
            /\ \A k \in 1..Len(source) :
                  /\ Len(grid[k]) = Len(headers)
                  /\ Len(headers) > 0 =>
                        grid[k][1].value = SubSheetName(source[k].prevRow, k)
                  /\ \A j \in 2..Len(headers) :
                        grid[k][j].value =
                            IF Succeeded(AggregateCall(k))
                            THEN Returned(AggregateCall(k).res.aggregatedInsights,
                                          headers[j])
                            ELSE ""

----------------------------------------------------------------------------
(* Claims checked under SpecStack *)

\* a runFind or runCells of a 3D stack has ended and all its calls are back
StackRunOver ==
    /\ log.op = "settled"
    /\ log.run.kind \in {"threeDFind", "threeDRunCells"}
    /\ Len(Pending(calls)) = 0

\* the calls made for sub-sheet k by the run that has ended
SubSheetCalls(k) == SelectSeq(calls, LAMBDA c : c.sheet = k)

\* what sub-sheet k (with rows `rows` before the run) gets from its own calls
OwnResults(k, rows, prevRow) ==
    IF log.run.kind = "threeDFind"
    THEN ThreeDFindRows(log.run.headers, SubSheetCalls(k)[1].res.results)
    ELSE [j \in 1..Len(rows) |->
             ThreeDRunCellsRow(rows[j], j - 1, prevRow, CallOf(calls, k, j).res)]

\* C7: when a runFind or runCells of a 3D stack is over, a sub-sheet all of
\* whose calls came back with a 2xx response holds what its own calls gave,
\* and a sub-sheet with a failed call holds the rows it had before.
C7_SubSheetIsolation ==
    StackRunOver =>
        LET before == log.run.sheetData
            after  == views[log.step].sheetData
        IN  \A k \in 1..Len(before) :
                /\ k <= Len(after)
                /\ IF \A n \in 1..Len(SubSheetCalls(k)) :
                          SubSheetCalls(k)[n].status = "ok"
                   THEN after[k] = OwnResults(k, before[k], log.run.data[k].prevRow)
                   ELSE after[k] = before[k]

----------------------------------------------------------------------------
(* Claims checked under SpecRunAll *)

\* runAll ran over Single, 3D, Aggregation and is over, and no call failed
RanClean ==
    /\ runAll.pc = "done"
    /\ runAll.types = <<"single", "3d", "aggregation">>
    /\ runAll.firstFailure = 0

C5_StrictOrdering ==
    isRunningAll =>
        \A m, n \in 1..Len(calls) :
            calls[m].status = "pending" =>
                /\ calls[n].step <= calls[m].step
                /\ ~(calls[n].step = calls[m].step /\ calls[m].kind = "find"
                       /\ calls[n].kind = "runCells")

\* the handlers runAll is to call for steps of these types, in order
RECURSIVE Operations(_, _)
Operations(types, i) ==
    IF i > Len(types) THEN <<>>
    ELSE (CASE types[i] = "single" -> << <<i, "singleFind">>, <<i, "singleRunCells">> >>
            [] types[i] = "3d"     -> << <<i, "threeDFind">>, <<i, "threeDRunCells">> >>
            [] OTHER               -> << <<i, "aggregate">> >>)
         \o Operations(types, i + 1)

----------------------------------------------------------------------------
(* Claims checked under Spec: runFind of a Single sheet *)

\* a runFind of a Single sheet has just ended
FindEnded == log.op = "settled" /\ log.run.kind = "singleFind"

\* its Find call
FindCall == SelectSeq(calls, LAMBDA c : c.kind = "find" /\ c.sheet = 0)[1]

\* the grid holds one row per result, in order: headers.length cells, the
\* result in column 0, the other columns blank
RowsOfResults(grid, headers, results) ==
    /\ Len(grid) = Len(results)
    /\ \A k \in 1..Len(results) :
          /\ Len(grid[k]) = Len(headers)
          /\ Len(headers) > 0 => grid[k][1].value = results[k]
          /\ \A j \in 2..Len(headers) : grid[k][j].value = ""

\* C11 as stated: after a runFind on a Single sheet whose Find call returned
\* the list r, the grid holds exactly |r| rows in the order of r, each of
\* headers.length cells, column 0 equal to r[k], every other column blank.
C11_FindReplacesRows ==
    (FindEnded /\ FindCall.status = "ok") =>
        RowsOfResults(views[log.step].data, views[log.step].headers,
                      FindCall.res.results)

\* C11 amended: the rows are replaced as stated, in the view and in the
\* orchestrator's step data, when the list r is not empty; when r is empty the
\* grid is left as it was and no change is reported.
C11_FindReplacesRowsUnlessEmpty ==
    (FindEnded /\ FindCall.status = "ok") =>
        IF Len(FindCall.res.results) > 0
        THEN /\ RowsOfResults(views[log.step].data, views[log.step].headers,
                              FindCall.res.results)
             /\ workflowSteps[log.step].data = views[log.step].data
             /\ log.edit
        ELSE /\ views[log.step].data = log.run.data
             /\ ~log.edit

C11_Witness ==
    /\ FindEnded /\ FindCall.status = "ok"
    /\ FindCall.res.results = <<"b", "a">>
    /\ Len(views[log.step].headers) = 2
    /\ Len(log.run.data) = 1
    /\ Len(log.run.data[1]) = 2 /\ log.run.data[1][2].value # ""
    /\ Len(views[log.step].data) = 2

\* C12: when the Find call of a runFind on a Single sheet failed, the grid is
\* what it was when runFind was called, no change is reported to the
\* orchestrator, and runFind has returned with its flags reset.
C12_FindFailureKeepsGrid ==
    (FindEnded /\ FindCall.status = "fail") =>
        /\ views[log.step].data = log.run.data
        /\ views[log.step].headers = log.run.headers
        /\ ~log.edit
        /\ run = NoRun
        /\ ~views[log.step].isRunningFind /\ ~views[log.step].isLoading

C12_Witness ==
    /\ FindEnded /\ FindCall.status = "fail"
    /\ Len(log.run.data) = 2
    /\ log.run.data[1][1].value # ""
    /\ views[log.step].data = log.run.data
    /\ workflowSteps[log.step].data = log.run.data

----------------------------------------------------------------------------
(* Claims checked under Spec: the rows of a grid *)

\* C17 as stated: in every reachable state the grid of a Single sheet and the
\* grid of every sub-sheet of a 3D stack hold at least one row.
C17_NeverZeroRows ==
    \A i \in 1..Len(workflowSteps) :
        /\ workflowSteps[i].type = "single" => Len(views[i].data) >= 1
        /\ workflowSteps[i].type = "3d" =>
              \A s \in 1..Len(views[i].sheetData) : Len(views[i].sheetData[s]) >= 1

----------------------------------------------------------------------------
(* Claims checked under SpecAggregation: the structural handlers of a *)
(* SingleSpreadsheet, applied to every grid a SingleSpreadsheet can hold     *)

\* the cell at row position r and column position c carries row r and col c
IndicesFollowPositions(data) ==
    \A r \in 1..Len(data) : \A c \in 1..Len(data[r]) :
        data[r][c].row = r - 1 /\ data[r][c].col = c - 1

\* handleAddColumn, then handleDeleteColumn of the index of the new header
AddThenDeleteColumn(data, headers) ==
    LET added == SingleAddColumn(data, headers)
    IN  SingleDeleteColumn(added.data, added.headers, Len(headers))

\* C19 as stated: for every reachable grid of a SingleSpreadsheet, addColumn
\* followed by deleteColumn of the newly added last index gives back the
\* header list and every cell (value, row, col) as they were before addColumn.
C19_AddDeleteColumnRoundTrip ==
    \A i \in 1..Len(workflowSteps) :
        (IsSheet(i) /\ \A r \in 1..Len(views[i].data) : Len(views[i].data[r]) > 0) =>
            LET after == AddThenDeleteColumn(views[i].data, views[i].headers)
            IN  after.headers = views[i].headers /\ after.data = views[i].data

\* C20 as stated: after addRow, deleteRow, addColumn or deleteColumn on the
\* grid of a SingleSpreadsheet whose cells carry their positions, the cell at
\* row position r and column position c again carries row r and col c.
C20_IndicesStayContiguous ==
    \A i \in 1..Len(workflowSteps) :
        (IsSheet(i) /\ IndicesFollowPositions(views[i].data)
                    /\ \A r \in 1..Len(views[i].data) : Len(views[i].data[r]) > 0) =>
            LET data    == views[i].data
                headers == views[i].headers
            IN  /\ IndicesFollowPositions(SingleAddRow(data, headers))
                /\ \A k \in 0..(Len(data) - 1) :
                      IndicesFollowPositions(SingleDeleteRow(data, k))
                /\ IndicesFollowPositions(SingleAddColumn(data, headers).data)
                /\ \A c \in 0..(Len(headers) - 1) :
                      IndicesFollowPositions(SingleDeleteColumn(data, headers, c).data)

----------------------------------------------------------------------------
(* Claims checked under SpecColumns *)

\* C18: a deleteColumn on a grid of exactly one column, in a Single sheet or
\* in the 3D stack, changes neither the headers nor any cell of any view,
\* leaves the orchestrator's step data as it is and reports no change.
C18_DeleteOnlyColumnIsNoOp ==
    [][ /\ (log'.op = "deleteColumn" /\ Len(views[log'.step].headers) = 1) =>
              (views' = views /\ workflowSteps' = workflowSteps /\ ~log'.edit)
        /\ (log'.op = "stackDeleteColumn" /\ Len(views[log'.step].headers) = 1) =>
              (views' = views /\ workflowSteps' = workflowSteps /\ ~log'.edit)
      ]_vars

C18_Witness ==
    /\ log.op = "stackDeleteColumn" /\ ~log.edit
    /\ Len(views[2].headers) = 1
    /\ Len(views[2].sheetData) = 2
    /\ Len(views[1].headers) = 1
    /\ views[1].data[1][1].value = "a"

----------------------------------------------------------------------------
(* Claims checked under SpecBuild *)

Appends == {"appendThreeD", "appendAggregation", "appendLLMPipe"}

TypeOf(j) == workflowSteps[j].type

\* C13: a 3D step is appended only from a Single or an Aggregation step, an
\* Aggregation step only from a 3D step, and every append is taken from the
\* step that is last at that moment; so every Aggregation step comes right
\* after a 3D step and every 3D step right after a Single or Aggregation step.
C13_AppendsFollowTheChain ==
    /\ log.op \in Appends => log.step = Len(workflowSteps) - 1
    /\ log.op = "appendThreeD" => TypeOf(log.step) \in {"single", "aggregation"}
    /\ log.op = "appendAggregation" => TypeOf(log.step) = "3d"
    /\ \A j \in 1..Len(workflowSteps) :
          /\ TypeOf(j) = "aggregation" => j > 1 /\ TypeOf(j - 1) = "3d"
          /\ TypeOf(j) = "3d" => j > 1 /\ TypeOf(j - 1) \in {"single", "aggregation"}

C13_Witness ==
    /\ Len(workflowSteps) = 4
    /\ [j \in 1..4 |-> TypeOf(j)] = <<"single", "3d", "aggregation", "3d">>
    /\ log.op = "appendThreeD" /\ log.step = 3

\* C14 as stated: in every non-empty workflow the last step offers at least
\* one append, and it offers the append of an LLM-pipe step whatever its type.
C14_LastStepOffersLLMPipe ==
    Len(workflowSteps) > 0 =>
        /\ Buttons(TypeOf(Len(workflowSteps))) # {}
        /\ "Pipe to LLM" \in Buttons(TypeOf(Len(workflowSteps)))

\* C15 as stated, for an edit of a cell of the step before an LLM-pipe step
\* (no source row is removed or moved): every row of the LLM-pipe step that
\* had an output keeps it in column 1, in the orchestrator's step data and in
\* the LLM-pipe view alike.
C15_OutputsSurviveSourceEdit ==
    [][ \A j \in 2..Len(workflowSteps) :
          (/\ TypeOf(j) = "llm_pipe"
           /\ log'.op = "setCell" /\ log'.step = j - 1 /\ log'.edit
           /\ Len(log'.data) = Len(workflowSteps[j - 1].data)) =>
              \A k \in 1..Len(views[j].data) :
                  (/\ Len(views[j].data[k]) = 2 /\ views[j].data[k][2].value # ""
                   /\ k <= Len(workflowSteps[j].data)
                   /\ workflowSteps[j].data[k][2].value = views[j].data[k][2].value) =>
                      /\ workflowSteps'[j].data[k][2].value = views[j].data[k][2].value
                      /\ views'[j].data[k][2].value = views[j].data[k][2].value
      ]_vars

\* C16: an edit of step i (handleDataChange(i, newData)) gives step i the new
\* data and changes no step below i or above i + 1.
C16_EditReachesNextStepOnly ==
    [][ (log'.edit /\ log'.step \in 1..Len(workflowSteps)) =>
          /\ Len(workflowSteps') = Len(workflowSteps)
          /\ workflowSteps'[log'.step].data = log'.data
          /\ \A j \in 1..Len(workflowSteps) :
                (j < log'.step \/ j > log'.step + 1) =>
                    workflowSteps'[j] = workflowSteps[j]
      ]_vars

C16_Witness ==
    /\ Len(workflowSteps) = 4
    /\ log.op = "setCell" /\ log.edit /\ log.step = 1
    /\ TypeOf(3) = "aggregation" /\ Len(workflowSteps[3].data) = 1
    /\ workflowSteps[3].data[1][1].value = "a"
    /\ workflowSteps[1].data[1][1].value = ""
    /\ Len(workflowSteps[2].data) = 2

----------------------------------------------------------------------------
(* Claims checked under SpecColumns: the rows of a 3D stack *)

\* C21 as stated: in a 3D stack every row of every sub-sheet has exactly as
\* many cells as the header list shared by the sub-sheets has names.
C21_StackRowsMatchHeaders ==
    \A i \in 1..Len(workflowSteps) :
        workflowSteps[i].type = "3d" =>
            \A s \in 1..Len(views[i].sheetData) :
                \A r \in 1..Len(views[i].sheetData[s]) :
                    Len(views[i].sheetData[s][r]) = Len(views[i].headers)

\* C30 as stated: the header names of a Single-Sheet view, distinct at the
\* start, stay pairwise distinct under addColumn and deleteColumn.
C30_HeaderNamesDistinct ==
    \A i \in 1..Len(workflowSteps) :
        IsSheet(i) =>
            \A a, b \in 1..Len(views[i].headers) :
                a # b => views[i].headers[a] # views[i].headers[b]

----------------------------------------------------------------------------
(* Claims checked under Spec: the orchestrator's copy of a Single sheet *)

\* the last event is a synchronous handler of a Single sheet, or the end of
\* its runFind or runCells
GridOperationEnded ==
    \/ log.op \in {"setCell", "addRow", "deleteRow", "addColumn", "deleteColumn"}
    \/ log.op = "settled" /\ log.run.kind \in {"singleFind", "singleRunCells"}

\* C25 as stated: after every operation on the grid of a Single sheet (setCell,
\* addRow, deleteRow, addColumn, deleteColumn, a completed runFind or
\* runCells) the data the orchestrator holds for the step equals the grid.
C25_StepDataEqualsGrid ==
    (GridOperationEnded /\ workflowSteps[log.step].type = "single") =>
        workflowSteps[log.step].data = views[log.step].data

----------------------------------------------------------------------------
(* Claims checked under SpecStack: the row rule of runCells on a 3D stack *)

\* a runCells of a 3D stack has ended with no call rejected and every
\* sub-sheet kept
StackRunCellsDone ==
    /\ log.op = "settled" /\ log.run.kind = "threeDRunCells" /\ ~log.rejected
    /\ Len(Pending(calls)) = 0
    /\ Len(views[log.step].sheetData) = Len(log.run.sheetData)

\* C22 as stated: runCells on a 3D stack applies to each sub-sheet the row
\* rule of runCells on a Single sheet: a row whose column-0 value is blank is
\* skipped and left unchanged, and any other row keeps column 0 and receives in
\* each remaining column the returned value keyed by the column's header name.
C22_StackAppliesSingleRowRule ==
    StackRunCellsDone =>
        LET before == log.run.sheetData
            after  == views[log.step].sheetData
        IN  \A k \in 1..Len(before) :
                /\ Len(after[k]) = Len(before[k])
                /\ \A j \in 1..Len(before[k]) :
                      after[k][j] =
                          IF SingleRowHasInput(before[k][j])
                          THEN SingleRunCellsRow(before[k][j], j - 1, log.run.headers,
                                                 CallOf(calls, k, j).res)
                          ELSE before[k][j]

----------------------------------------------------------------------------
(* Claims checked under SpecColumns: the cascade into a 3D stack *)

\* the step just taken is an edit of Single step i that reached the
\* orchestrator while a 3D stack follows it
CascadesIntoStack(i) ==
    /\ log'.edit /\ log'.step = i
    /\ i + 1 <= Len(workflowSteps)
    /\ workflowSteps[i].type = "single" /\ workflowSteps[i + 1].type = "3d"

\* C26 as stated: when an edit of a Single step cascades into the 3D step
\* after it, every sub-sheet that existed before the edit keeps its own grid;
\* the grid of sub-sheet k is never replaced by the grid of another sub-sheet.
C26_CascadeKeepsEachGrid ==
    [][ \A i \in 1..Len(workflowSteps) :
          CascadesIntoStack(i) =>
              \A k \in 1..Len(workflowSteps[i + 1].data) :
                  k <= Len(workflowSteps'[i + 1].data) =>
                      workflowSteps'[i + 1].data[k].data =
                          workflowSteps[i + 1].data[k].data
      ]_vars

----------------------------------------------------------------------------
(* Edits of a Single sheet while its runFind or runCells is in flight.      *)
(* handleCellChange copies the outer array only ([...data]) and writes the  *)
(* value into the cell object it finds there, so the write is seen through *)
(* every array that holds the same row: the `data` the handler in flight    *)
(* captured, whose rows it returns for the rows it does not rewrite.        *)

\* a grid captured earlier, after handleCellChange wrote `value` into the
\* cell (row, col) of the rows it shares with the sheet's grid; a row the
\* handler adds is held by the new array only
AliasedWrite(captured, row, col, value) ==
    [r \in 1..Len(captured) |->
        [c \in 1..Len(captured[r]) |->
            IF r = row + 1 /\ c = col + 1
            THEN Cell(value, captured[r][c].row, captured[r][c].col)
            ELSE captured[r][c]]]

\* SingleSpreadsheet.handleCellChange while handleRunFind or handleRunCells of
\* the same sheet awaits its calls (the inputs are not disabled by isLoading)
SetCellInFlight(i, row, col, value) ==
    /\ run # NoRun /\ run.step = i
    /\ run.kind \in {"singleFind", "singleRunCells"}
    /\ IsSheet(i)
    /\ row <= Len(views[i].data) /\ row < MaxRows
    /\ col < Len(views[i].headers)
    /\ LET r   == SingleCellChange(views[i].data, views[i].headers, row, col, value)
           vs1 == [views EXCEPT ![i].data = r.data]
       IN  /\ r.changed
           /\ workflowSteps' = HandleDataChange(workflowSteps, i, r.data)
           /\ views' = ViewsAfter(vs1, workflowSteps, workflowSteps', i)
           /\ run' = [run EXCEPT !.data = AliasedWrite(run.data, row, col, value)]
           /\ log' = Event("setCell", i, TRUE, r.data, run, FALSE)
    /\ UNCHANGED <<cacheVars, isRunningAll, runAll, calls>>

\* A Single sheet is edited, also while its Run buttons' handlers await.
NextEditInFlight ==
    \/ CreateInitialSheet
    \/ SetInput
    \/ AddColumn(1)
    \/ RunFind(1)
    \/ RunCells(1)
    \/ \E r \in Rows, c \in Cols, v \in CellValues : SetCellInFlight(1, r, c, v)
    \/ Return

SpecEditInFlight == Init /\ [][NextEditInFlight]_vars

----------------------------------------------------------------------------
(* Claims checked under SpecEditInFlight *)

\* the step taken is a cell edit made while a handler awaits its calls
EditedInFlight == run # NoRun /\ run' # NoRun /\ log'.op = "setCell" /\ log' # log

\* C23 as stated: steps share no mutable row or cell objects, so a setCell on
\* a Single sheet changes no value of a state stored earlier (here the grid a
\* handler in flight captured at its start); data changes only by being
\* replaced with a fresh copy.
C23_EditLeavesStoredStateAlone ==
    [][ EditedInFlight => run'.data = run.data ]_vars

\* the run of a Single sheet that ends in this step rewrote row k (1-based):
\* a runFind that stored its results replaced the whole grid, a runCells
\* rewrote the rows whose call returned results
RunRewrote(k) ==
    IF run.kind = "singleFind" THEN log'.edit
    ELSE /\ HasCall(calls', 0, k)
         /\ Succeeded(CallOf(calls', 0, k))

\* C27 as stated: a cell edit made while runCells or runFind of a Single sheet
\* is in flight is not lost; when the run completes, a row the run did not
\* rewrite holds what the sheet showed before the completion, in the sheet's
\* grid and in the orchestrator's data of the step.
C27_EditInFlightIsKept ==
    [][ (run # NoRun /\ run' = NoRun /\ run.kind \in {"singleFind", "singleRunCells"}) =>
          LET i      == run.step
              before == views[i].data
          IN  \A k \in 1..Len(before) :
                  ~RunRewrote(k) =>
                      /\ k <= Len(views'[i].data)
                      /\ views'[i].data[k] = before[k]
                      /\ k <= Len(workflowSteps'[i].data)
                      /\ workflowSteps'[i].data[k] = before[k]
      ]_vars

\* The rows the sheet held when the run started do keep their edits (this
\* holds under SpecEditInFlight): the handler returns the row objects the
\* edits were written into.
EditOfExistingRowIsKept ==
    [][ (run # NoRun /\ run' = NoRun /\ run.kind \in {"singleFind", "singleRunCells"}) =>
          LET i      == run.step
              before == views[i].data
          IN  \A k \in 1..Len(run.data) :
                  (k <= Len(before) /\ ~RunRewrote(k)) =>
                      /\ k <= Len(views'[i].data)
                      /\ views'[i].data[k] = before[k]
                      /\ k <= Len(workflowSteps'[i].data)
                      /\ workflowSteps'[i].data[k] = before[k]
      ]_vars

----------------------------------------------------------------------------
(* The expanded 3D stack: its sidebar and the window of rendered sub-sheets *)

\* the Expand / Collapse button of ThreeDSpreadsheet
StackToggleExpand(i) ==
    /\ Quiescent /\ IsStack(i)
    /\ views' = [views EXCEPT ![i] =
                    ThreeDRangeEffect([views[i] EXCEPT !.isExpanded = ~views[i].isExpanded])]
    /\ log' = Event("toggleExpand", i, FALSE, <<>>, NoRun, FALSE)
    /\ UNCHANGED <<cacheVars, workflowSteps, isRunningAll, runAll, run, calls>>

\* a click on item `index` of the sidebar, which the expanded stack shows
StackSelectSheet(i, index) ==
    /\ Quiescent /\ IsStack(i)
    /\ views[i].isExpanded
    /\ index < Len(views[i].sheetNames)
    /\ views' = [views EXCEPT ![i] =
                    ThreeDRangeEffect([views[i] EXCEPT !.activeSheet = index])]
    /\ log' = Event("selectSheet", i, FALSE, <<>>, NoRun, FALSE)
    /\ UNCHANGED <<cacheVars, workflowSteps, isRunningAll, runAll, run, calls>>

\* A workflow Single, 3D: the stack is expanded and its sub-sheets selected
\* while the Single sheet is edited and searched.
NextWindow ==
    \/ CreateInitialSheet
    \/ SetInput
    \/ CreateThreeDSheet(1)
    \/ RunFind(1)
    \/ StackRunFind(2)
    \/ StackToggleExpand(2)
    \/ \E index \in Rows : StackSelectSheet(2, index)
    \/ Return

SpecWindow == Init /\ [][NextWindow]_vars

----------------------------------------------------------------------------
(* Claims checked under SpecWindow *)

\* C24 as stated: in an expanded 3D stack with an active sub-sheet a, in every
\* reachable state, the visible window [start, end] satisfies
\* 0 <= start <= a <= end <= count - 1 and end - start + 1 <= 3.
C24_ActiveSheetInsideWindow ==
    \A i \in 1..Len(workflowSteps) :
        (workflowSteps[i].type = "3d" /\ views[i].isExpanded
            /\ views[i].activeSheet # NoSheet) =>
            LET a     == views[i].activeSheet
                w     == views[i].visibleRange
                count == Len(views[i].sheetNames)
            IN  /\ 0 <= w.start /\ w.start <= a
                /\ a <= w.end /\ w.end <= count - 1
                /\ w.end - w.start + 1 <= 3

----------------------------------------------------------------------------
(* Runs come to an end.  A workflow Single, 3D, Aggregation, LLM pipe is    *)
(* built step by step; the Run buttons of the step built last are used, or  *)
(* the next step is appended before any call was made, and the complete     *)
(* workflow is run with "Run All Steps".  Every call that is out comes back *)
(* (the fetch resolves or rejects), and the loop of runAll goes on once the *)
(* handler it awaits has returned and its delay has passed.                 *)

\* no handler has issued a call so far
NoCallYet == calls = <<>>

NextLive ==
    \/ CreateInitialSheet
    \/ Len(workflowSteps) = 1 /\ NoCallYet /\ SetCell(1, 0, 0, "a")
    \/ NoCallYet /\ log.op = "setCell" /\ CreateThreeDSheet(1)
    \/ NoCallYet /\ Aggregate(2)
    \/ NoCallYet /\ CreateLLMPipe(3)
    \/ IsLast(1) /\ RunFind(1)
    \/ IsLast(1) /\ RunCells(1)
    \/ IsLast(2) /\ StackRunFind(2)
    \/ IsLast(2) /\ StackRunCells(2)
    \/ IsLast(3) /\ RunAggregation(3)
    \/ runAll.pc = "idle" /\ RunLLM(4)
    \/ runAll.pc = "idle" /\ NoCallYet /\ Len(workflowSteps) = MaxSteps /\ RunAllStart
    \/ RunAllInvoke
    \/ RunAllFinish
    \/ Return

SpecLive ==
    /\ Init /\ [][NextLive]_vars
    /\ WF_vars(Return)
    /\ WF_vars(RunAllInvoke)
    /\ WF_vars(RunAllFinish)

----------------------------------------------------------------------------
(* Claims checked under SpecLive *)

\* the busy flags of the views
Flags == {"isRunningFind", "isRunningCells", "isRunningAggregation", "isRunning",
          "isLoading"}

\* the view of step i holds the flag and it is set
FlagSet(i, flag) ==
    /\ i <= Len(views)
    /\ flag \in DOMAIN views[i]
    /\ views[i][flag]

\* a run is under way somewhere: runAll, or a view with a busy flag set
Busy == isRunningAll \/ \E i \in StepIds : \E flag \in Flags : FlagSet(i, flag)

----------------------------------------------------------------------------
(* agent(): the disk cache of the outbound HTTP client *)

\* time passes
Tick ==
    /\ now < MaxClock
    /\ now' = now + 1
    /\ UNCHANGED <<cache, requests, issued, reply, written>>
    /\ UNCHANGED pageVars

\* agent(url, options) up to its await: the answer from the cache, or the
\* fetch (after the file of an expired entry was deleted)
AgentCall(key) ==
    /\ issued < MaxRequests
    /\ issued' = issued + 1
    /\ LET found == AgentLookup(cache[key], now)
       IN  /\ cache' = IF found = "expired" THEN [cache EXCEPT ![key] = NoEntry]
                       ELSE cache
           /\ requests' = IF found = "hit" THEN requests
                          ELSE requests \cup {[id |-> issued + 1, key |-> key]}
           /\ reply' = IF found = "hit"
                       THEN [op |-> "hit", id |-> issued + 1, key |-> key,
                             data |-> cache[key].data, fromCache |-> TRUE]
                       ELSE [op |-> found, id |-> issued + 1, key |-> key]
    /\ UNCHANGED <<now, written>>
    /\ UNCHANGED pageVars

\* agent after its await: the entry is written after a 2xx response with a
\* JSON body; otherwise agent throws
AgentReturn(request, outcome) ==
    /\ request \in requests
    /\ outcome \in FetchOutcomes
    /\ requests' = requests \ {request}
    /\ IF outcome.ok
       THEN /\ cache' = [cache EXCEPT ![request.key] = CacheEntry(outcome.data, now)]
            /\ written' = written \cup
                  {[key |-> request.key, data |-> outcome.data, at |-> now]}
            /\ reply' = [op |-> "fetched", id |-> request.id, key |-> request.key,
                         data |-> outcome.data, fromCache |-> FALSE]
       ELSE /\ reply' = [op |-> "failed", id |-> request.id, key |-> request.key]
            /\ UNCHANGED <<cache, written>>
    /\ UNCHANGED <<now, issued>>
    /\ UNCHANGED pageVars

\* The server's routes call agent while time passes.
NextCache ==
    \/ Tick
    \/ \E key \in CacheKeys : AgentCall(key)
    \/ \E request \in requests : \E outcome \in FetchOutcomes :
          AgentReturn(request, outcome)

SpecCache == Init /\ [][NextCache]_vars

----------------------------------------------------------------------------
(* Claims checked under SpecCache *)

\* agent has just taken the step `op`
AgentDid(op) == reply' # reply /\ reply'.op = op

\* C29: the disk cache of the HTTP client only answers with data that an
\* earlier successful request with the same fingerprint stored and whose
\* expiry (one CacheDuration after it was stored) has not passed; an expired
\* entry is deleted and the request issued again; a failed request (non-2xx
\* or thrown) stores no entry and leaves the cache as it was.
C29_CacheAnswersOnlyFreshStoredData ==
    [][ /\ AgentDid("hit") =>
              /\ reply'.fromCache
              /\ \E w \in written :
                    /\ w.key = reply'.key /\ w.data = reply'.data
                    /\ w.at + CacheDuration > now
        /\ AgentDid("expired") =>
              /\ cache'[reply'.key] = NoEntry
              /\ \E r \in requests' \ requests : r.key = reply'.key
        /\ AgentDid("failed") =>
              /\ cache' = cache
              /\ written' = written
      ]_vars

\* agent answers from an entry that was stored after an earlier entry of the
\* same key had expired
C29_Witness ==
    /\ reply.op = "hit"
    /\ \E w \in written : w.key = reply.key /\ w.at + CacheDuration <= now
    /\ \E w \in written : w.key = reply.key /\ w.at + CacheDuration > now

====
